---- MODULE Spec2Model ----
(***************************************************************************)
(* Model of renorm.py: the yield accumulator (YieldResult), the dataset    *)
(* pass (calculate_yields), the two systematic processors, the flavour     *)
(* orchestrator (process_flavour), the run controller (run, sequential or  *)
(* over a process pool) and the table writer (save_to_csv).                *)
(*                                                                         *)
(* Representation.                                                         *)
(*  - A Python str is a sequence of tokens; concatenation is \o and the    *)
(*    substring / suffix tests are tests on tokens.  "jes_up" is           *)
(*    <<"jes", "_", "up">>.                                                *)
(*  - A Python dict is the sequence of its items <<key, value>> in         *)
(*    insertion order, keys unique.  Two dicts are equal in Python when    *)
(*    they hold the same mapping, whatever the order: AsMap.               *)
(*  - A dataset (ROOT file) is a sequence of rows [w, res, fl]; a          *)
(*    selection is a conjunction of atoms, a weight expression a product   *)
(*    of atoms.  Yields are integers, renormalisation factors exact        *)
(*    fractions <<numerator, denominator>>.                                *)
(***************************************************************************)
EXTENDS Integers, Sequences, FiniteSets, TLC

VARIABLES
    config,               \* self.config, as loaded by __init__
    store,                \* the files on disk: path -> [readable, rows]
    use_multiprocessing,  \* run's argument
    pc,                   \* where run / the caller is
    i,                    \* index of the flavour the run loop is at
    flavour_results,      \* index -> what process_flavour gave for that flavour
    results,              \* run's results dict
    error,                \* the exception that left run or save_to_csv
    csv,                  \* the rows save_to_csv has written (header excluded)
    A, B, C,              \* three accumulators (YieldResult.yields)
    merged                \* the accumulators obtained by merging them

vars == <<config, store, use_multiprocessing, pc, i, flavour_results, results,
          error, csv, A, B, C, merged>>

runVars == <<config, store, use_multiprocessing, pc, i, flavour_results,
             results, error, csv>>

mergeVars == <<A, B, C, merged>>

-----------------------------------------------------------------------------
(* Bounds *)

\* longest list of systematics a flavour is configured with
MaxSys == 2

\* largest yield held by an accumulator handed to merge
MaxVal == 2

-----------------------------------------------------------------------------
(* dict *)

Keys(d) == {d[k][1] : k \in DOMAIN d}

Has(d, key) == \E k \in DOMAIN d : d[k][1] = key

Get(d, key, default) ==
    IF Has(d, key) THEN d[CHOOSE k \in DOMAIN d : d[k][1] = key][2] ELSE default

Put(d, key, value) ==
    IF Has(d, key)
    THEN [k \in DOMAIN d |-> IF d[k][1] = key THEN <<key, value>> ELSE d[k]]
    ELSE Append(d, <<key, value>>)

Remove(d, key) == SelectSeq(d, LAMBDA item : item[1] # key)

AsMap(d) == [key \in Keys(d) |-> Get(d, key, 0)]

-----------------------------------------------------------------------------
(* YieldResult *)

RECURSIVE merge_items(_, _, _)
merge_items(yields, other, k) ==
    IF k > Len(other) THEN yields
    ELSE merge_items(Put(yields, other[k][1], Get(yields, other[k][1], 0) + other[k][2]),
                     other, k + 1)

\* a merge that assigns the other operand's value instead of adding it
merge_assign(self, other) ==
    LET RECURSIVE go(_, _)
        go(yields, k) ==
            IF k > Len(other) THEN yields
            ELSE go(Put(yields, other[k][1], other[k][2]), k + 1)
    IN  go(self, 1)

\* a merge that only updates the keys self already holds
merge_known(self, other) ==
    LET RECURSIVE go(_, _)
        go(yields, k) ==
            IF k > Len(other) THEN yields
            ELSE go(IF Has(yields, other[k][1])
                    THEN Put(yields, other[k][1], Get(yields, other[k][1], 0) + other[k][2])
                    ELSE yields, k + 1)
    IN  go(self, 1)

merge(self, other) == merge_items(self, other, 1)

-----------------------------------------------------------------------------
(* strings *)

NOMINAL == <<"nominal">>

ensure_root_extension(file_name) ==
    IF Len(file_name) > 0 /\ file_name[Len(file_name)] = ".root"
    THEN file_name
    ELSE file_name \o <<".root">>

PathJoin(base_path, folder, file_name) ==
    base_path \o <<"/">> \o folder \o <<"/">> \o file_name

Contains(token, str) == \E k \in DOMAIN str : str[k] = token

VariationKey(sys_name, variation_type) == sys_name \o <<"_", variation_type>>

RECURSIVE LastIndexOf(_, _, _)
LastIndexOf(token, str, k) ==
    IF k = 0 THEN 0
    ELSE IF str[k] = token THEN k ELSE LastIndexOf(token, str, k - 1)

\* sys_name.rsplit("_", 1)[0]
BaseSysName(sys_name) ==
    LET at == LastIndexOf("_", sys_name, Len(sys_name))
    IN  IF at = 0 THEN sys_name ELSE SubSeq(sys_name, 1, at - 1)

CombinedWeight(nominal_weight, factor) ==
    <<"(">> \o nominal_weight \o <<")", "*", "(">> \o factor \o <<")">>

-----------------------------------------------------------------------------
(* the dataset pass *)

AtomHolds(row, atom) ==
    CASE atom = "res"  -> row.res
      [] atom = "is_b" -> row.fl = "b"
      [] atom = "is_c" -> row.fl = "c"
      [] atom = "is_l" -> row.fl = "l"
      [] OTHER         -> TRUE

RowPasses(row, selection) ==
    \A k \in DOMAIN selection : selection[k] = "&&" \/ AtomHolds(row, selection[k])

AtomValue(row, atom) ==
    CASE atom = "w" -> row.w
      [] atom = "0" -> 0
      [] atom = "1" -> 1
      [] atom = "2" -> 2
      [] OTHER      -> 1

RECURSIVE WeightValue(_, _, _)
WeightValue(row, weight_expr, k) ==
    IF k > Len(weight_expr) THEN 1
    ELSE AtomValue(row, weight_expr[k]) * WeightValue(row, weight_expr, k + 1)

RECURSIVE SumColumn(_, _, _)
SumColumn(df, weight_expr, k) ==
    IF k > Len(df) THEN 0
    ELSE WeightValue(df[k], weight_expr, 1) + SumColumn(df, weight_expr, k + 1)

Filter(df, selection) == SelectSeq(df, LAMBDA row : RowPasses(row, selection))

calculate_yields(df, weight_expressions, selection) ==
    LET filtered == Filter(df, selection)
        RECURSIVE fill_result(_, _)
        fill_result(result, k) ==
            IF k > Len(weight_expressions) THEN result
            ELSE fill_result(Put(result, weight_expressions[k][1],
                                 SumColumn(filtered, weight_expressions[k][2], 1)),
                             k + 1)
    IN  fill_result(<<>>, 1)

-----------------------------------------------------------------------------
(* the systematic processors *)

process_weight_based_systematic(systematic, weight_expressions) ==
    LET sys_name == systematic.name
        with_up  == Put(weight_expressions, VariationKey(sys_name, "up"),
                        CombinedWeight(Get(weight_expressions, NOMINAL, <<>>),
                                       systematic.up_weight))
    IN  Put(with_up, VariationKey(sys_name, "down"),
            CombinedWeight(Get(with_up, NOMINAL, <<>>), systematic.down_weight))

FilesKey(variation_type) == IF variation_type = "up" THEN "up_files" ELSE "down_files"

WeightKey(variation_type) == IF variation_type = "up" THEN "up_weight" ELSE "down_weight"

\* the selection process_sample_based_systematic hands to calculate_yields
SampleSelection(selection, folder) ==
    IF ~Contains("boosted", folder)
    THEN selection \o config.extra_selections.resolved
    ELSE selection

\* the selection process_flavour hands to calculate_yields
NominalSelection(selection, folder) ==
    IF ~Contains("boosted", folder) /\ ~Contains("2l_", folder)
    THEN selection \o config.extra_selections.resolved
    ELSE selection

Call(stage, sample_path, folder, selection, adjusted_selection, weight_expressions) ==
    [stage |-> stage, path |-> sample_path, folder |-> folder, base |-> selection,
     selection |-> adjusted_selection, weight_expressions |-> weight_expressions]

\* the loops over systematic[variation_key] and folders, for one direction;
\* acc.sys_yield is the running total, acc.ok is FALSE once a read has failed
RECURSIVE variation_loop(_, _, _, _, _, _, _, _)
variation_loop(systematic, variation_type, base_path, folders, combined_weight, selection, k, acc) ==
    LET files == systematic[FilesKey(variation_type)]
        n     == Len(folders)
    IN  IF ~acc.ok \/ k > Len(files) * n THEN acc
        ELSE LET file_rel_path_with_ext ==
                     ensure_root_extension(files[((k - 1) \div n) + 1])
                 folder == folders[((k - 1) % n) + 1]
                 adjusted_selection == SampleSelection(selection, folder)
                 sample_path == PathJoin(base_path, folder, file_rel_path_with_ext)
                 weight_expressions == << <<NOMINAL, combined_weight>> >>
                 call == Call("sample", sample_path, folder, selection,
                              adjusted_selection, weight_expressions)
             IN  IF ~store[sample_path].readable
                 THEN [acc EXCEPT !.ok = FALSE, !.failed_path = sample_path,
                                  !.calls = Append(@, call)]
                 ELSE variation_loop(systematic, variation_type, base_path, folders,
                          combined_weight, selection, k + 1,
                          [acc EXCEPT
                             !.sys_yield = @ + Get(calculate_yields(
                                                store[sample_path].rows,
                                                weight_expressions,
                                                adjusted_selection), NOMINAL, 0),
                             !.calls = Append(@, call)])

\* a store of the direction's total that adds to the value the key holds
StoreAdding(systematic_yields, key, sys_yield) ==
    Put(systematic_yields, key, Get(systematic_yields, key, 0) + sys_yield)

\* systematic_yields[f"{systematic['name']}_{variation_type}"] = sys_yield
StoreVariation(systematic_yields, key, sys_yield) ==
    Put(systematic_yields, key, sys_yield)

process_variation(systematic, variation_type, base_path, folders, nominal_weight, selection, acc) ==
    IF ~acc.ok THEN acc
    ELSE IF FilesKey(variation_type) \in DOMAIN systematic
    THEN LET additional_weight ==
                 IF WeightKey(variation_type) \in DOMAIN systematic
                 THEN systematic[WeightKey(variation_type)] ELSE <<"1">>
             combined_weight == CombinedWeight(nominal_weight, additional_weight)
             done == variation_loop(systematic, variation_type, base_path, folders,
                                    combined_weight, selection, 1,
                                    [acc EXCEPT !.sys_yield = 0])
         IN  IF done.ok
             THEN [done EXCEPT !.yields =
                      StoreVariation(@, VariationKey(systematic.name, variation_type),
                                     done.sys_yield)]
             ELSE done
    ELSE acc

process_sample_based_systematic(systematic, acc, base_path, folders, nominal_weight, selection, flavour_config) ==
    process_variation(systematic, "down", base_path, folders, nominal_weight, selection,
        process_variation(systematic, "up", base_path, folders, nominal_weight,
                          selection, acc))

-----------------------------------------------------------------------------
(* the flavour orchestrator *)

RECURSIVE WeightExpressions(_, _, _)
WeightExpressions(systematics, k, weight_expressions) ==
    IF k > Len(systematics) THEN weight_expressions
    ELSE WeightExpressions(systematics, k + 1,
             IF systematics[k].type = "weight"
             THEN process_weight_based_systematic(systematics[k], weight_expressions)
             ELSE weight_expressions)

\* the loops over folders and flavour_config["files"]
RECURSIVE nominal_loop(_, _, _, _, _, _)
nominal_loop(base_path, folders, flavour_config, weight_expressions, k, acc) ==
    LET files == flavour_config.files
        n     == Len(files)
    IN  IF ~acc.ok \/ k > Len(folders) * n THEN acc
        ELSE LET folder == folders[((k - 1) \div n) + 1]
                 adjusted_selection == NominalSelection(flavour_config.selection, folder)
                 file_rel_path_with_ext ==
                     ensure_root_extension(files[((k - 1) % n) + 1])
                 sample_path == PathJoin(base_path, folder, file_rel_path_with_ext)
                 call == Call("nominal", sample_path, folder, flavour_config.selection,
                              adjusted_selection, weight_expressions)
             IN  IF ~store[sample_path].readable
                 THEN [acc EXCEPT !.ok = FALSE, !.failed_path = sample_path,
                                  !.calls = Append(@, call)]
                 ELSE nominal_loop(base_path, folders, flavour_config,
                          weight_expressions, k + 1,
                          [acc EXCEPT
                             !.yields = merge(@, calculate_yields(
                                                   store[sample_path].rows,
                                                   weight_expressions,
                                                   adjusted_selection)),
                             !.calls = Append(@, call)])

RECURSIVE sample_loop(_, _, _, _, _, _, _)
sample_loop(systematics, k, acc, base_path, folders, nominal_weight, flavour_config) ==
    IF k > Len(systematics) THEN acc
    ELSE sample_loop(systematics, k + 1,
             IF systematics[k].type = "sample"
             THEN process_sample_based_systematic(systematics[k], acc, base_path,
                      folders, nominal_weight, flavour_config.selection, flavour_config)
             ELSE acc,
             base_path, folders, nominal_weight, flavour_config)

EmptyAcc == [ok |-> TRUE, yields |-> <<>>, calls |-> <<>>, failed_path |-> <<>>,
             sys_yield |-> 0]

process_flavour(base_path, folders, nominal_weight, flavour_config) ==
    LET weight_expressions ==
            WeightExpressions(flavour_config.systematics, 1,
                              << <<NOMINAL, nominal_weight>> >>)
        result == nominal_loop(base_path, folders, flavour_config, weight_expressions,
                               1, EmptyAcc)
        nominal_yield == Get(result.yields, NOMINAL, 0)
        popped == [result EXCEPT !.yields = Remove(@, NOMINAL)]
        done == sample_loop(flavour_config.systematics, 1, popped, base_path, folders,
                            nominal_weight, flavour_config)
    IN  [ok |-> done.ok,
         nominal_yield |-> IF done.ok THEN nominal_yield ELSE 0,
         systematic_yields |-> IF done.ok THEN done.yields ELSE <<>>,
         calls |-> done.calls,
         failed_path |-> done.failed_path]

process_flavour_wrapper(args) ==
    process_flavour(config.base_path, config.folders, config.nominal_weight, args[2])

-----------------------------------------------------------------------------
(* renormalisation *)

RECURSIVE GCD(_, _)
GCD(a, b) == IF b = 0 THEN a ELSE GCD(b, a % b)

\* the number n / d, d > 0, in lowest terms
Fraction(n, d) == LET g == GCD(n, d) IN <<n \div g, d \div g>>

\* x / y for y # 0
TrueDiv(x, y) == Fraction(x[1] * y[2], x[2] * y[1])

ZERO == Fraction(0, 1)

ONE == Fraction(1, 1)

\* a renormalisation that falls back to 1 when there is no nominal yield
RenormFallbackOne(sys_yield, nominal_yield) ==
    IF nominal_yield # 0
    THEN LET ratio == TrueDiv(Fraction(sys_yield, 1), Fraction(nominal_yield, 1))
         IN  IF ratio = ZERO THEN [ok |-> FALSE, value |-> ZERO]
             ELSE [ok |-> TRUE, value |-> TrueDiv(ONE, ratio)]
    ELSE [ok |-> TRUE, value |-> ONE]

\* renorm = 1 / (sys_yield / nominal_yield) if nominal_yield else 0
\* ok is FALSE when the expression raises ZeroDivisionError
Renorm(sys_yield, nominal_yield) ==
    IF nominal_yield # 0
    THEN LET ratio == TrueDiv(Fraction(sys_yield, 1), Fraction(nominal_yield, 1))
         IN  IF ratio = ZERO THEN [ok |-> FALSE, value |-> ZERO]
             ELSE [ok |-> TRUE, value |-> TrueDiv(ONE, ratio)]
    ELSE [ok |-> TRUE, value |-> ZERO]

\* for sys_name, sys_yield in systematic_yields.items(): ...
RECURSIVE renormalisation_loop(_, _, _, _)
renormalisation_loop(nominal_yield, systematic_yields, k, acc) ==
    IF ~acc.ok \/ k > Len(systematic_yields) THEN acc
    ELSE LET sys_name == systematic_yields[k][1]
             renorm   == Renorm(systematic_yields[k][2], nominal_yield)
         IN  IF ~renorm.ok THEN [acc EXCEPT !.ok = FALSE, !.key = sys_name]
             ELSE renormalisation_loop(nominal_yield, systematic_yields, k + 1,
                      [acc EXCEPT !.renormalisations = Put(@, sys_name, renorm.value)])

Renormalisations(nominal_yield, systematic_yields) ==
    renormalisation_loop(nominal_yield, systematic_yields, 1,
                         [ok |-> TRUE, renormalisations |-> <<>>, key |-> <<>>])

FlavourResult(nominal_yield, systematic_yields, renormalisations) ==
    [nominal |-> nominal_yield, systematic_yields |-> systematic_yields,
     renormalisations |-> renormalisations]

NoError == [kind |-> "none", path |-> <<>>, key |-> <<>>]

ReadError(path) == [kind |-> "ReadError", path |-> path, key |-> <<>>]

ZeroDivisionError(key) == [kind |-> "ZeroDivisionError", path |-> <<>>, key |-> key]

-----------------------------------------------------------------------------
(* save_to_csv *)

NA == [na |-> TRUE]

Cell(value) == [v |-> value]

\* result["systematic_yields"].get(key, "N/A")
YieldCell(systematic_yields, key) ==
    IF Has(systematic_yields, key) THEN Cell(Get(systematic_yields, key, 0)) ELSE NA

\* "N/A" if the yield is "N/A" else 1 / (float(yield) / nominal_yield)
\* ok is FALSE when either division raises ZeroDivisionError
RenormCell(yield_cell, nominal_yield) ==
    IF yield_cell = NA THEN [ok |-> TRUE, cell |-> NA]
    ELSE IF nominal_yield = 0 THEN [ok |-> FALSE, cell |-> NA]
    ELSE LET ratio == TrueDiv(Fraction(yield_cell.v, 1), Fraction(nominal_yield, 1))
         IN  IF ratio = ZERO THEN [ok |-> FALSE, cell |-> NA]
             ELSE [ok |-> TRUE, cell |-> Cell(TrueDiv(ONE, ratio))]

\* the loop over result["systematic_yields"].items() of one flavour
RECURSIVE csv_systematics(_, _, _, _, _)
csv_systematics(flavour, result, k, systematics_processed, acc) ==
    LET systematic_yields == result.systematic_yields
    IN  IF ~acc.ok \/ k > Len(systematic_yields) THEN acc
        ELSE LET base_sys_name == BaseSysName(systematic_yields[k][1])
                 up_yield   == YieldCell(systematic_yields,
                                         VariationKey(base_sys_name, "up"))
                 down_yield == YieldCell(systematic_yields,
                                         VariationKey(base_sys_name, "down"))
                 renorm_up   == RenormCell(up_yield, result.nominal)
                 renorm_down == RenormCell(down_yield, result.nominal)
             IN  IF base_sys_name \in systematics_processed
                 THEN csv_systematics(flavour, result, k + 1, systematics_processed, acc)
                 ELSE IF ~renorm_up.ok \/ ~renorm_down.ok
                 THEN [acc EXCEPT !.ok = FALSE, !.key = base_sys_name]
                 ELSE csv_systematics(flavour, result, k + 1,
                          systematics_processed \cup {base_sys_name},
                          [acc EXCEPT !.rows = Append(@,
                              [flavour |-> flavour, systematic |-> base_sys_name,
                               nominal |-> result.nominal,
                               up_yield |-> up_yield, down_yield |-> down_yield,
                               renorm_up |-> renorm_up.cell,
                               renorm_down |-> renorm_down.cell])])

\* the loop over results.items()
RECURSIVE csv_flavours(_, _, _)
csv_flavours(all_results, k, acc) ==
    IF ~acc.ok \/ k > Len(all_results) THEN acc
    ELSE csv_flavours(all_results, k + 1,
             csv_systematics(all_results[k][1], all_results[k][2], 1, {}, acc))

save_to_csv(all_results) ==
    csv_flavours(all_results, 1, [ok |-> TRUE, rows |-> <<>>, key |-> <<>>])

-----------------------------------------------------------------------------
(* configurations and files *)

BasePath == <<"base">>

Boosted  == <<"1l_", "boosted">>
Dilepton == <<"2l_", "4j">>
Resolved == <<"1l_", "5j">>

FolderNames == {Boosted, Dilepton, Resolved}

FolderLists ==
    {<<Dilepton>>, <<Resolved>>, <<Boosted, Resolved>>, <<Boosted, Dilepton>>}

FileF == <<"f">>
FileG == <<"g", ".root">>
FileH == <<"h">>

FileNames == {FileF, FileG, FileH}

\* the events a readable file holds
Rows(file_name) ==
    CASE file_name = FileF ->
           << [w |-> 1, res |-> TRUE,  fl |-> "b"], [w |-> 2, res |-> FALSE, fl |-> "b"] >>
      [] file_name = FileG ->
           << [w |-> 1, res |-> TRUE,  fl |-> "b"], [w |-> 1, res |-> FALSE, fl |-> "c"] >>
      [] OTHER ->
           << [w |-> 1, res |-> TRUE,  fl |-> "b"], [w |-> 1, res |-> TRUE,  fl |-> "c"],
              [w |-> 2, res |-> FALSE, fl |-> "c"] >>

\* what may be wrong with one file: nothing, no events, or it cannot be read
Faults == {<<"none", FileF>>} \cup ({"empty", "unreadable"} \X FileNames)

AllPaths ==
    {PathJoin(BasePath, fo, ensure_root_extension(fi)) : fo \in FolderNames, fi \in FileNames}

FileAt(path) ==
    CHOOSE fi \in FileNames :
        \E fo \in FolderNames : path = PathJoin(BasePath, fo, ensure_root_extension(fi))

Disk(fault) ==
    [path \in AllPaths |->
        IF fault[1] # "none" /\ FileAt(path) = fault[2]
        THEN [readable |-> fault[1] # "unreadable", rows |-> <<>>]
        ELSE [readable |-> TRUE, rows |-> Rows(FileAt(path))]]

WeightJes == [type |-> "weight", name |-> <<"jes">>,
              up_weight |-> <<"2">>, down_weight |-> <<"1">>]

SampleGenUp == [type |-> "sample", name |-> <<"gen">>, up_files |-> <<FileH>>]

SampleGenBoth == [type |-> "sample", name |-> <<"gen">>, up_files |-> <<>>,
                  down_files |-> <<FileG>>, down_weight |-> <<"2">>]

SampleJesDown == [type |-> "sample", name |-> <<"jes">>, down_files |-> <<FileH>>]

SystematicSpecs == {WeightJes, SampleGenUp, SampleGenBoth, SampleJesDown}

SystematicLists ==
    UNION {[1..n -> SystematicSpecs] : n \in 0..MaxSys}

FlavourNames == {"b", "c", "l"}

FlavourLists == {<<"b">>, <<"c">>, <<"l">>, <<"b", "c">>, <<"c", "b">>}

FlavourConfig(name, systematics) ==
    CASE name = "b" -> [selection |-> <<"is_b">>, files |-> <<FileF, FileG>>,
                        systematics |-> systematics]
      [] name = "c" -> [selection |-> <<"is_c">>, files |-> <<FileG>>,
                        systematics |-> systematics]
      [] OTHER      -> [selection |-> <<"is_l">>, files |-> <<>>,
                        systematics |-> systematics]

Config(folders, names, systematics) ==
    [base_path |-> BasePath,
     folders |-> folders,
     nominal_weight |-> <<"w">>,
     extra_selections |-> [resolved |-> <<"&&", "res">>],
     flavours |-> [k \in DOMAIN names |-> <<names[k], FlavourConfig(names[k], systematics)>>]]

NoMerge == [ab |-> <<>>, ba |-> <<>>, ab_c |-> <<>>, a_bc |-> <<>>]

Init ==
    /\ \E folders \in FolderLists, names \in FlavourLists, systematics \in SystematicLists :
           config = Config(folders, names, systematics)
    /\ \E fault \in Faults : store = Disk(fault)
    /\ use_multiprocessing \in BOOLEAN
    /\ pc = "run"
    /\ i = 1
    /\ flavour_results = <<>>
    /\ results = <<>>
    /\ error = NoError
    /\ csv = <<>>
    /\ A = <<>> /\ B = <<>> /\ C = <<>>
    /\ merged = NoMerge

-----------------------------------------------------------------------------
(* run *)

NFlavours == Len(config.flavours)

FlavourName(k) == config.flavours[k][1]

\* one iteration of the loop of the sequential branch
SequentialIteration ==
    /\ pc = "run" /\ ~use_multiprocessing /\ i <= NFlavours
    /\ LET out == process_flavour(config.base_path, config.folders,
                                  config.nominal_weight, config.flavours[i][2])
           ren == Renormalisations(out.nominal_yield, out.systematic_yields)
       IN  /\ flavour_results' = Put(flavour_results, i, out)
           /\ IF ~out.ok
              THEN /\ pc' = "raised" /\ error' = ReadError(out.failed_path)
                   /\ UNCHANGED <<i, results>>
              ELSE IF ~ren.ok
              THEN /\ pc' = "raised" /\ error' = ZeroDivisionError(ren.key)
                   /\ UNCHANGED <<i, results>>
              ELSE /\ results' = Put(results, FlavourName(i),
                                     FlavourResult(out.nominal_yield,
                                                   out.systematic_yields,
                                                   ren.renormalisations))
                   /\ i' = i + 1
                   /\ pc' = IF i = NFlavours THEN "returned" ELSE "run"
                   /\ error' = error
    /\ UNCHANGED <<config, store, use_multiprocessing, csv, mergeVars>>

\* a worker of the pool runs process_flavour_wrapper on one item
Worker(k) ==
    /\ pc = "run" /\ use_multiprocessing
    /\ ~Has(flavour_results, k)
    /\ flavour_results' = Put(flavour_results, k, process_flavour_wrapper(config.flavours[k]))
    /\ UNCHANGED <<config, store, use_multiprocessing, pc, i, results, error, csv, mergeVars>>

\* pool.map returns the list of results, or raises what a worker raised
PoolMap ==
    /\ pc = "run" /\ use_multiprocessing
    /\ \A k \in 1..NFlavours : Has(flavour_results, k)
    /\ IF \A k \in 1..NFlavours : Get(flavour_results, k, 0).ok
       THEN pc' = "zip" /\ error' = error
       ELSE /\ pc' = "raised"
            /\ \E k \in 1..NFlavours :
                  /\ ~Get(flavour_results, k, 0).ok
                  /\ error' = ReadError(Get(flavour_results, k, 0).failed_path)
    /\ UNCHANGED <<config, store, use_multiprocessing, i, flavour_results, results, csv,
                   mergeVars>>

\* one iteration of the loop over zip(flavours, flavour_results)
ParallelIteration ==
    /\ pc = "zip" /\ i <= NFlavours
    /\ LET out == Get(flavour_results, i, 0)
           ren == Renormalisations(out.nominal_yield, out.systematic_yields)
       IN  IF ~ren.ok
           THEN /\ pc' = "raised" /\ error' = ZeroDivisionError(ren.key)
                /\ UNCHANGED <<i, results>>
           ELSE /\ results' = Put(results, FlavourName(i),
                                  FlavourResult(out.nominal_yield, out.systematic_yields,
                                                ren.renormalisations))
                /\ i' = i + 1
                /\ pc' = IF i = NFlavours THEN "returned" ELSE "zip"
                /\ error' = error
    /\ UNCHANGED <<config, store, use_multiprocessing, flavour_results, csv, mergeVars>>

\* the caller writes the results run returned
SaveToCsv ==
    /\ pc = "returned"
    /\ LET out == save_to_csv(results)
       IN  /\ csv' = out.rows
           /\ IF out.ok THEN pc' = "saved" /\ error' = error
              ELSE pc' = "csv_raised" /\ error' = ZeroDivisionError(out.key)
    /\ UNCHANGED <<config, store, use_multiprocessing, i, flavour_results, results,
                   mergeVars>>

Next ==
    \/ SequentialIteration
    \/ \E k \in 1..NFlavours : Worker(k)
    \/ PoolMap
    \/ ParallelIteration
    \/ SaveToCsv

Spec == Init /\ [][Next]_vars

-----------------------------------------------------------------------------
(* merge on its own: three accumulators, merged in both orders and groupings *)

MergeKeys == {NOMINAL, VariationKey(<<"jes">>, "up")}

Accumulators ==
    UNION {{d \in [1..n -> MergeKeys \X (0..MaxVal)] :
               \A j, k \in 1..n : j # k => d[j][1] # d[k][1]} :
           n \in 0..Cardinality(MergeKeys)}

InitMerge ==
    /\ A \in Accumulators /\ B \in Accumulators /\ C \in Accumulators
    /\ merged = NoMerge
    /\ pc = "merge"
    /\ config = Config(<<Boosted>>, <<"b">>, <<>>)
    /\ store = Disk(<<"none", FileF>>)
    /\ use_multiprocessing = FALSE
    /\ i = 1
    /\ flavour_results = <<>>
    /\ results = <<>>
    /\ error = NoError
    /\ csv = <<>>

Merge ==
    /\ pc = "merge"
    /\ merged' = [ab   |-> merge(A, B),
                  ba   |-> merge(B, A),
                  ab_c |-> merge(merge(A, B), C),
                  a_bc |-> merge(A, merge(B, C))]
    /\ pc' = "merged"
    /\ UNCHANGED <<config, store, use_multiprocessing, i, flavour_results, results,
                   error, csv, A, B, C>>

NextMerge == Merge

SpecMerge == InitMerge /\ [][NextMerge]_vars

-----------------------------------------------------------------------------
(* What the claims speak of *)

RECURSIVE SumTo(_, _)
SumTo(F(_), n) == IF n = 0 THEN 0 ELSE F(n) + SumTo(F, n - 1)

\* the accessor's weighted sum for one file, selection and weight expression
WeightedSum(path, selection, weight_expr) ==
    SumColumn(Filter(store[path].rows, selection), weight_expr, 1)

\* the sum over every (partition, file) pair of the flavour, each under the
\* selection of the nominal pass
NominalPassSum(flavour_config, weight_expr) ==
    LET folders == config.folders
        files   == flavour_config.files
        OfFolder(a) ==
            LET OfFile(b) ==
                    WeightedSum(PathJoin(config.base_path, folders[a],
                                         ensure_root_extension(files[b])),
                                NominalSelection(flavour_config.selection, folders[a]),
                                weight_expr)
            IN  SumTo(OfFile, Len(files))
    IN  SumTo(OfFolder, Len(folders))

\* the sum over every file of the direction's list and every partition, each
\* under the selection of the sample-based pass
SamplePassSum(flavour_config, systematic, variation_type) ==
    LET folders == config.folders
        files   == systematic[FilesKey(variation_type)]
        factor  == IF WeightKey(variation_type) \in DOMAIN systematic
                   THEN systematic[WeightKey(variation_type)] ELSE <<"1">>
        OfFile(b) ==
            LET OfFolder(a) ==
                    WeightedSum(PathJoin(config.base_path, folders[a],
                                         ensure_root_extension(files[b])),
                                SampleSelection(flavour_config.selection, folders[a]),
                                CombinedWeight(config.nominal_weight, factor))
            IN  SumTo(OfFolder, Len(folders))
    IN  SumTo(OfFile, Len(files))

\* the Selection Composer's rule
ComposedSelection(selection, folder) ==
    IF ~Contains("boosted", folder) /\ ~Contains("2l_", folder)
    THEN selection \o config.extra_selections.resolved
    ELSE selection

Processed == {k \in 1..NFlavours : Has(flavour_results, k)}

Outcome(k) == Get(flavour_results, k, 0)

\* the flavours process_flavour has returned for
Returned == {k \in Processed : Outcome(k).ok}

FlavourSpec(k) == config.flavours[k][2]

Systematics(k) == FlavourSpec(k).systematics

OfType(k, type) == {j \in DOMAIN Systematics(k) : Systematics(k)[j].type = type}

Directions == {"up", "down"}

Present(systematic) == {d \in Directions : FilesKey(d) \in DOMAIN systematic}

\* no other systematic of the flavour bears the name of systematic j
NameUnique(k, j) ==
    \A j2 \in DOMAIN Systematics(k) :
        j2 # j => Systematics(k)[j2].name # Systematics(k)[j].name

\* no later sample-based systematic of the same name defines direction d
LastWriter(k, j, d) ==
    \A j2 \in OfType(k, "sample") :
        j2 > j /\ Systematics(k)[j2].name = Systematics(k)[j].name
            => d \notin Present(Systematics(k)[j2])

Result(name) == Get(results, name, 0)

-----------------------------------------------------------------------------
(* C1: merge is a pointwise sum with missing keys read as 0.  Merging B    *)
(* into A and A into B give the same mapping, (A then B) then C and A with *)
(* (B with C) give the same mapping, every key of the result carries the   *)
(* sum of the operands' values, and the result's keys are exactly the keys *)
(* of the operands.                                                        *)
C1_MergeIsPointwiseSum ==
    pc = "merged" =>
        /\ AsMap(merged.ab) = AsMap(merged.ba)
        /\ AsMap(merged.ab_c) = AsMap(merged.a_bc)
        /\ Keys(merged.ab) = Keys(A) \cup Keys(B)
        /\ Keys(merged.ab_c) = Keys(A) \cup Keys(B) \cup Keys(C)
        /\ \A key \in Keys(A) \cup Keys(B) :
               Get(merged.ab, key, 0) = Get(A, key, 0) + Get(B, key, 0)
        /\ \A key \in Keys(A) \cup Keys(B) \cup Keys(C) :
               Get(merged.ab_c, key, 0) = Get(A, key, 0) + Get(B, key, 0) + Get(C, key, 0)

\* merged operands that hold different keys, different values under a shared
\* key, and items in different orders
C1_Witness ==
    /\ pc = "merged"
    /\ Keys(A) \ Keys(B) # {} /\ Keys(C) \ Keys(A) # {}
    /\ \E key \in Keys(B) \cap Keys(C) : Get(B, key, 0) # Get(C, key, 0) /\ Get(B, key, 0) > 0
    /\ merged.ab # merged.ba

(* C2: a flavour whose nominal yield is 0 has the factor 0 for every       *)
(* variation key it has a yield for, whatever those yields are, in the     *)
(* sequential and in the parallel mode; and the division never raises for  *)
(* such a flavour.                                                         *)
C2_ZeroNominalGivesZeroFactors ==
    /\ \A name \in Keys(results) :
           Result(name).nominal = 0 =>
               /\ Keys(Result(name).renormalisations) = Keys(Result(name).systematic_yields)
               /\ \A key \in Keys(Result(name).renormalisations) :
                      Get(Result(name).renormalisations, key, ONE) = ZERO
    /\ \A k \in Returned :
           Outcome(k).nominal_yield = 0 =>
               /\ Renormalisations(0, Outcome(k).systematic_yields).ok
               /\ ~(pc = "raised" /\ error.kind = "ZeroDivisionError" /\ i = k)
               /\ (pc \in {"returned", "saved", "csv_raised"} => Has(results, FlavourName(k)))

\* a returned result whose nominal yield is 0 while one of its systematic
\* yields is 0 and another is not
C2_Witness ==
    \E name \in Keys(results) :
        /\ Result(name).nominal = 0
        /\ \E key \in Keys(Result(name).systematic_yields) :
               Get(Result(name).systematic_yields, key, 0) = 0
        /\ \E key \in Keys(Result(name).systematic_yields) :
               Get(Result(name).systematic_yields, key, 0) # 0

(* C3: a variation whose yield is 0 while the nominal yield of its flavour  *)
(* is not 0 is caught at the renormalisation step: run never ends with the *)
(* division by zero raised, and every flavour process_flavour returned for *)
(* is in the result run returns.                                           *)
C3_ZeroSystematicYieldIsCaught ==
    /\ ~(pc = "raised" /\ error.kind = "ZeroDivisionError")
    /\ pc \in {"returned", "saved", "csv_raised"} =>
           \A k \in 1..NFlavours : Has(results, FlavourName(k))

(* C4: at every invocation of the accessor, in the nominal / weight-based  *)
(* pass and in the sample-based pass alike, the selection handed over is   *)
(* the flavour's selection composed by the Selection Composer's rule for   *)
(* the partition: the resolved clause appended when the partition name     *)
(* holds neither "boosted" nor "2l_", the selection unchanged otherwise.   *)
C4_SelectionComposerEverywhere ==
    \A k \in Processed :
        \A n \in DOMAIN Outcome(k).calls :
            LET call == Outcome(k).calls[n]
            IN  call.selection = ComposedSelection(call.base, call.folder)

(* C5: in the parallel mode a read failure in one flavour leaves the other *)
(* flavours' results produced: once pool.map has raised the read error,    *)
(* every flavour whose own processing succeeded (and whose factors are all *)
(* defined) has its entry in results, equal to what that flavour gives on  *)
(* its own.                                                                *)
C5_ReadFailureIsolatedInParallelMode ==
    (use_multiprocessing /\ pc = "raised" /\ error.kind = "ReadError") =>
        \A k \in Returned :
            LET ren == Renormalisations(Outcome(k).nominal_yield,
                                        Outcome(k).systematic_yields)
            IN  ren.ok =>
                    /\ Has(results, FlavourName(k))
                    /\ Result(FlavourName(k)) =
                           FlavourResult(Outcome(k).nominal_yield,
                                         Outcome(k).systematic_yields,
                                         ren.renormalisations)

\* what C6 says of weight-based systematic j of flavour k
WeightYieldsAreSums(k, j) ==
    LET sys == Systematics(k)[j]
        yields == Outcome(k).systematic_yields
    IN  \A d \in Directions :
            /\ Has(yields, VariationKey(sys.name, d))
            /\ Get(yields, VariationKey(sys.name, d), 0) =
                   NominalPassSum(FlavourSpec(k),
                       CombinedWeight(config.nominal_weight, sys[WeightKey(d)]))

\* what C6 says of the nominal yield of flavour k
NominalYieldIsSum(k) ==
    /\ Outcome(k).nominal_yield = NominalPassSum(FlavourSpec(k), config.nominal_weight)
    /\ ~Has(Outcome(k).systematic_yields, NOMINAL)
    /\ (Systematics(k) = <<>> => Outcome(k).systematic_yields = <<>>)

(* C6 as stated: for every flavour process_flavour returns for and every   *)
(* weight-based systematic of it, the yields under "<name>_up" and         *)
(* "<name>_down" are the sums over every (partition, file) pair of the     *)
(* weighted sum of (nominal)*(factor) under the nominal pass's selection;  *)
(* the nominal yield is the same sum for the nominal weight, and "nominal" *)
(* is no key of the returned mapping, which is empty without systematics.  *)
C6_AsStated ==
    \A k \in Returned :
        /\ NominalYieldIsSum(k)
        /\ \A j \in OfType(k, "weight") : WeightYieldsAreSums(k, j)

(* C6 amended: the same, for the weight-based systematics whose name no    *)
(* other systematic of the flavour bears, of a flavour that has at least   *)
(* one (partition, file) pair.                                             *)
C6_WeightYieldsAreSums ==
    \A k \in Returned :
        /\ NominalYieldIsSum(k)
        /\ \A j \in OfType(k, "weight") :
               (NameUnique(k, j) /\ Len(config.folders) > 0 /\ Len(FlavourSpec(k).files) > 0)
                   => WeightYieldsAreSums(k, j)

\* a flavour with two partitions and two files, returned with a weight-based
\* systematic of a name of its own beside a sample-based one, its up and down
\* yields different and not 0
C6_Witness ==
    \E k \in Returned :
        /\ Len(config.folders) = 2 /\ Len(FlavourSpec(k).files) = 2
        /\ OfType(k, "sample") # {}
        /\ \E j \in OfType(k, "weight") :
               /\ NameUnique(k, j)
               /\ Get(Outcome(k).systematic_yields, VariationKey(Systematics(k)[j].name, "down"), 0) > 0
               /\ Get(Outcome(k).systematic_yields, VariationKey(Systematics(k)[j].name, "up"), 0)
                      > Get(Outcome(k).systematic_yields, VariationKey(Systematics(k)[j].name, "down"), 0)

\* the sample-based systematics of flavour k that define one direction only
OneDirection(k) == {j \in OfType(k, "sample") : Cardinality(Present(Systematics(k)[j])) = 1}

(* C7: for a sample-based systematic that defines one direction only (and  *)
(* whose name no other systematic of the flavour bears), process_flavour   *)
(* gives a yield for the present direction's key and none for the absent   *)
(* one, run gives the flavour a factor for the present key and none for    *)
(* the absent one, and run does not fail on the flavour: no division by    *)
(* zero is raised while its factors are computed.                          *)
C7_OneDirectionOnly ==
    \A k \in Returned :
        \A j \in OneDirection(k) :
            NameUnique(k, j) =>
                LET sys == Systematics(k)[j]
                    present == VariationKey(sys.name, CHOOSE d \in Directions : d \in Present(sys))
                    absent  == VariationKey(sys.name, CHOOSE d \in Directions : d \notin Present(sys))
                IN  /\ Has(Outcome(k).systematic_yields, present)
                    /\ ~Has(Outcome(k).systematic_yields, absent)
                    /\ Has(results, FlavourName(k)) =>
                           /\ Has(Result(FlavourName(k)).renormalisations, present)
                           /\ ~Has(Result(FlavourName(k)).renormalisations, absent)
                    /\ ~(pc = "raised" /\ error.kind = "ZeroDivisionError" /\ i = k)

(* C8: while one flavour is processed, the accessor is invoked at most     *)
(* once for the same (file path, effective selection).                     *)
C8_OneInvocationPerPathAndSelection ==
    \A k \in Processed :
        \A m, n \in DOMAIN Outcome(k).calls :
            (Outcome(k).calls[m].path = Outcome(k).calls[n].path
               /\ Outcome(k).calls[m].selection = Outcome(k).calls[n].selection)
                => m = n

\* what C9 says of direction d of sample-based systematic j of flavour k
SampleYieldIsSum(k, j, d) ==
    LET sys == Systematics(k)[j]
        yields == Outcome(k).systematic_yields
    IN  /\ Has(yields, VariationKey(sys.name, d))
        /\ Get(yields, VariationKey(sys.name, d), 0) = SamplePassSum(FlavourSpec(k), sys, d)

(* C9 as stated: for every sample-based systematic and every direction it  *)
(* defines, the value under "<name>_<direction>" after process_flavour is  *)
(* the sum, over the files of the direction's list and the partitions, of  *)
(* the weighted sum of (nominal)*(additional weight or 1): written once,   *)
(* replacing what the key held, and 0 for an empty list.                   *)
C9_AsStated ==
    \A k \in Returned :
        \A j \in OfType(k, "sample") :
            \A d \in Present(Systematics(k)[j]) : SampleYieldIsSum(k, j, d)

(* C9 amended: the same, for every direction that no later sample-based    *)
(* systematic of the same name defines too (the last writer of the key).   *)
C9_SampleYieldsAreSums ==
    \A k \in Returned :
        \A j \in OfType(k, "sample") :
            \A d \in Present(Systematics(k)[j]) :
                LastWriter(k, j, d) => SampleYieldIsSum(k, j, d)

\* a flavour returned with a weight-based and a sample-based systematic of the
\* same name, where the key the sample-based one writes held a weight-based
\* yield that is not 0 and the direction's own total is not 0 either
C9_Witness ==
    \E k \in Returned :
        \E j \in OfType(k, "sample"), w \in OfType(k, "weight") :
            /\ Systematics(k)[j].name = Systematics(k)[w].name
            /\ Len(config.folders) = 2
            /\ \E d \in Present(Systematics(k)[j]) :
                   /\ SamplePassSum(FlavourSpec(k), Systematics(k)[j], d) > 0
                   /\ NominalPassSum(FlavourSpec(k),
                          CombinedWeight(config.nominal_weight,
                                         Systematics(k)[w][WeightKey(d)])) > 0
                   /\ Get(Outcome(k).systematic_yields,
                          VariationKey(Systematics(k)[j].name, d), 0)
                        = SamplePassSum(FlavourSpec(k), Systematics(k)[j], d)

\* the cell save_to_csv is to write for a factor: the run's value, or "N/A"
FactorCell(renormalisations, key) ==
    IF Has(renormalisations, key) THEN Cell(Get(renormalisations, key, ZERO)) ELSE NA

(* C10: for every result run returns, save_to_csv does not raise and       *)
(* writes one row per (flavour, systematic base name), whose factor cells  *)
(* are the values of the flavour's renormalisations under "<base>_up" and  *)
(* "<base>_down", or "N/A" for an absent key.                              *)
C10_CsvMatchesRun ==
    /\ pc # "csv_raised"
    /\ pc = "saved" =>
           /\ \A name \in Keys(results) :
                  \A key \in Keys(Result(name).systematic_yields) :
                      Cardinality({n \in DOMAIN csv :
                                      /\ csv[n].flavour = name
                                      /\ csv[n].systematic = BaseSysName(key)}) = 1
           /\ \A n \in DOMAIN csv :
                  /\ Has(results, csv[n].flavour)
                  /\ csv[n].renorm_up =
                         FactorCell(Result(csv[n].flavour).renormalisations,
                                    VariationKey(csv[n].systematic, "up"))
                  /\ csv[n].renorm_down =
                         FactorCell(Result(csv[n].flavour).renormalisations,
                                    VariationKey(csv[n].systematic, "down"))

=============================================================================
